---------------------------- MODULE Spec2Model ----------------------------
(***************************************************************************)
(* A model of the core of bfc: the IR (bfir.rs), the parser (bfir.rs) and  *)
(* the optimisation pipeline (optimize.rs).                                *)
(*                                                                         *)
(* The specifications of this module:                                      *)
(*   Spec      the pipeline of optimize(), one action per pass, followed   *)
(*             by a second run of the whole pipeline on its own output;    *)
(*   SpecRun   a reference interpreter that executes a program and then    *)
(*             the optimised program on the same input;                    *)
(*   SpecParse the scan of parse(), one action per source character;       *)
(*   SpecPass  one pass of the pipeline applied to any program;            *)
(*   SpecEmit  compile_to_ir (llvm.rs), one action per call or iteration.  *)
(***************************************************************************)
EXTENDS Integers, Sequences, FiniteSets, TLC

VARIABLES
    given,      \* optimize: the instruction vector p handed to optimize
    instrs,     \* optimize: the instruction vector handed from pass to pass
    stage,      \* optimize: number of passes already applied in this run
    run,        \* optimize: 1 for optimize(p), 2 for optimize(optimize(p))
    first,      \* optimize: <<optimize(p)>> once the first run is over
    prog,       \* interpreter: the program p
    stdin,      \* interpreter: the input stream both executions are given
    eof,        \* interpreter: what Read does at end of input
    phase,      \* interpreter: which execution is under way, or how it ended
    frames,     \* interpreter: stack of [block, pc], innermost last
    tape,       \* interpreter: the cells
    head,       \* interpreter: the index of the current cell
    unread,     \* interpreter: the bytes of stdin not read yet
    output,     \* interpreter: the bytes written so far
    ticks,      \* interpreter: steps taken by the current execution
    result1,    \* interpreter: <<final state>> of the execution of p
    source,     \* parse: the source text
    index,      \* parse: number of characters already scanned
    instructions, \* parse: instructions of the current loop (or toplevel)
    stack,      \* parse: <<parent instructions, index of '['>>, innermost last
    parsed,     \* parse: the value returned, once it has returned
    cells,      \* compile_to_ir: the initial values of the cells
    cell_ptr,   \* compile_to_ir: the initial index of the current cell
    static_outputs, \* compile_to_ir: the bytes known to be written first
    module,     \* compile_to_ir: the basic blocks of main, in creation order
    bb,         \* compile_to_ir: the basic block code is being added to
    pc,         \* compile_to_ir: the call or loop compile_to_ir is at
    runs,       \* add_cells_init: the runs the for loop has not reached yet
    offset,     \* add_cells_init: the local offset
    todo        \* compile_to_ir: the values or instructions a for loop has not reached yet

optVars == <<given, instrs, stage, run, first>>
runVars == <<prog, stdin, eof, phase, frames, tape, head, unread, output, ticks, result1>>
parseVars == <<source, index, instructions, stack, parsed>>
emitVars == <<cells, cell_ptr, static_outputs, module, bb, pc, runs, offset, todo>>
vars == <<given, instrs, stage, run, first,
          prog, stdin, eof, phase, frames, tape, head, unread, output, ticks, result1,
          source, index, instructions, stack, parsed,
          cells, cell_ptr, static_outputs, module, bb, pc, runs, offset, todo>>

-----------------------------------------------------------------------------
(* Bounds of the model.                                                    *)

\* Largest number of instructions (loops and their bodies counted) of a
\* program handed to optimize.
MaxSize == 4

\* Largest spelling of a program handed to the reference interpreter.
MaxRunSize == 4

\* Cells of the interpreter's tape (the emitter's tape has 30,000).
TapeLen == 3

\* Steps after which an execution is given up as not terminating.
MaxTicks == 24

\* Largest number of characters of a source text handed to parse.
MaxSrcLen == 4

-----------------------------------------------------------------------------
(* The IR: bfir.rs, enum Instruction.                                      *)

\* Cell = Wrapping<i8>: the value of an 8-bit two's-complement cell.
Wrap(x) == ((x + 128) % 256) - 128

\* One record shape for every variant; a field a variant does not have is
\* 0 (amount, offset) or <<>> (body).
Increment(a, o) == [op |-> "Increment", amount |-> a, offset |-> o, body |-> <<>>]
PointerIncrement(a) == [op |-> "PointerIncrement", amount |-> a, offset |-> 0, body |-> <<>>]
Read == [op |-> "Read", amount |-> 0, offset |-> 0, body |-> <<>>]
Write == [op |-> "Write", amount |-> 0, offset |-> 0, body |-> <<>>]
Loop(b) == [op |-> "Loop", amount |-> 0, offset |-> 0, body |-> b]
Set(a, o) == [op |-> "Set", amount |-> a, offset |-> o, body |-> <<>>]

IsIncrement(i) == i.op = "Increment"
IsPointerIncrement(i) == i.op = "PointerIncrement"
IsLoop(i) == i.op = "Loop"
IsSet(i) == i.op = "Set"

-----------------------------------------------------------------------------
(* optimize.rs.  Its patterns are written against Increment(amount) and    *)
(* Set(amount): the passes neither read nor produce an offset, so every    *)
(* instruction they build acts on the current cell (offset 0).  An amount  *)
(* is a Cell, so the sums of amounts wrap.                                 *)
(*                                                                         *)
(* Each closure given to coalesce is two operators: ...Can says whether    *)
(* the closure returns Ok for the pair, ...Merge is the instruction in Ok. *)

\* combine_increments, the closure given to coalesce
CombineIncrementsCan(prev_instr, instr) ==
    IsIncrement(prev_instr) /\ IsIncrement(instr)
\* (faulty variant, for comparison: the amounts are added as unbounded integers)
CombineIncrementsMergeNoWrap(prev_instr, instr) ==
    Increment(instr.amount + prev_instr.amount, 0)
CombineIncrementsMerge(prev_instr, instr) ==
    Increment(Wrap(instr.amount + prev_instr.amount), 0)
\* combine_increments, the closure given to filter
\* (faulty variant, for comparison: the filter lets every instruction through)
CombineIncrementsKeepAll(instr) == TRUE
CombineIncrementsKeep(instr) ==
    ~(IsIncrement(instr) /\ instr.amount = 0)

\* combine_ptr_increments, the closure given to coalesce
CombinePtrIncrementsCan(prev_instr, instr) ==
    IsPointerIncrement(prev_instr) /\ IsPointerIncrement(instr)
CombinePtrIncrementsMerge(prev_instr, instr) ==
    PointerIncrement(instr.amount + prev_instr.amount)
\* combine_ptr_increments, the closure given to filter
CombinePtrIncrementsKeep(instr) ==
    ~(IsPointerIncrement(instr) /\ instr.amount = 0)

\* simplify_loops, the first closure given to map
\* (faulty variant, for comparison: any loop of one Increment is taken for a zeroing loop)
SimplifyLoopAnyIncrement(instr) ==
    IF IsLoop(instr) /\ Len(instr.body) = 1 /\ IsIncrement(instr.body[1])
    THEN Set(0, 0)
    ELSE instr
SimplifyLoop(instr) ==
    IF IsLoop(instr) /\ instr.body = <<Increment(-1, 0)>>
    THEN Set(0, 0)
    ELSE instr

\* remove_dead_loops, the closure given to coalesce
\* (faulty variant, for comparison: the pattern is matched only on a Set of a non-zero amount)
RemoveDeadLoopsCanNonZero(prev_instr, instr) ==
    IsSet(prev_instr) /\ IsLoop(instr) /\ prev_instr.amount # 0
\* (faulty variant, for comparison: a Loop after a Loop is matched as well)
RemoveDeadLoopsCanAfterLoop(prev_instr, instr) ==
    IsLoop(instr) /\ (IsLoop(prev_instr) \/ (IsSet(prev_instr) /\ prev_instr.amount = 0))
RemoveDeadLoopsCan(prev_instr, instr) ==
    IsSet(prev_instr) /\ IsLoop(instr) /\ prev_instr.amount = 0
\* (faulty variant, for comparison: the loop is kept and the Set dropped)
RemoveDeadLoopsMergeKeepLoop(prev_instr, instr) ==
    Loop(instr.body)
RemoveDeadLoopsMerge(prev_instr, instr) ==
    Set(prev_instr.amount, 0)

\* combine_set_and_increments, the closures given to its three coalesces
CombineSetSetCan(prev_instr, instr) == IsSet(prev_instr) /\ IsSet(instr)
CombineSetSetMerge(prev_instr, instr) == Set(instr.amount, 0)
CombineSetIncCan(prev_instr, instr) == IsSet(prev_instr) /\ IsIncrement(instr)
\* (faulty variant, for comparison: the increment is dropped instead of folded into the Set)
CombineSetIncMergeDropInc(prev_instr, instr) == Set(prev_instr.amount, 0)
CombineSetIncMerge(prev_instr, instr) ==
    Set(Wrap(prev_instr.amount + instr.amount), 0)
CombineIncSetCan(prev_instr, instr) == IsIncrement(prev_instr) /\ IsSet(instr)
CombineIncSetMerge(prev_instr, instr) == Set(instr.amount, 0)

\* remove_redundant_sets, the closure given to coalesce
\* (faulty variant, for comparison: the pattern of remove_dead_loops, (Set, Loop), copied here)
RemoveRedundantSetsCanSwapped(prev_instr, instr) ==
    IsSet(prev_instr) /\ IsLoop(instr) /\ prev_instr.amount = 0
RemoveRedundantSetsCan(prev_instr, instr) ==
    IsLoop(prev_instr) /\ IsSet(instr) /\ instr.amount = 0
RemoveRedundantSetsMerge(prev_instr, instr) == Loop(prev_instr.body)

\* The closure f, named by the place it is given to coalesce, applied to a
\* pair: <<x>> for Ok(x), <<>> for Err((prev_instr, instr)).
Closure(f, prev_instr, instr) ==
    CASE f = "combine_increments" ->
            IF CombineIncrementsCan(prev_instr, instr)
            THEN <<CombineIncrementsMerge(prev_instr, instr)>> ELSE <<>>
      [] f = "combine_ptr_increments" ->
            IF CombinePtrIncrementsCan(prev_instr, instr)
            THEN <<CombinePtrIncrementsMerge(prev_instr, instr)>> ELSE <<>>
      [] f = "remove_dead_loops" ->
            IF RemoveDeadLoopsCan(prev_instr, instr)
            THEN <<RemoveDeadLoopsMerge(prev_instr, instr)>> ELSE <<>>
      [] f = "combine_set_and_increments 1" ->
            IF CombineSetSetCan(prev_instr, instr)
            THEN <<CombineSetSetMerge(prev_instr, instr)>> ELSE <<>>
      [] f = "combine_set_and_increments 2" ->
            IF CombineSetIncCan(prev_instr, instr)
            THEN <<CombineSetIncMerge(prev_instr, instr)>> ELSE <<>>
      [] f = "combine_set_and_increments 3" ->
            IF CombineIncSetCan(prev_instr, instr)
            THEN <<CombineIncSetMerge(prev_instr, instr)>> ELSE <<>>
      [] f = "remove_redundant_sets" ->
            IF RemoveRedundantSetsCan(prev_instr, instr)
            THEN <<RemoveRedundantSetsMerge(prev_instr, instr)>> ELSE <<>>

\* itertools' coalesce: fold the stream from the left; on Ok(x) the pair is
\* replaced by x, which stays the pending element; on Err the first of the
\* pair is emitted and the second becomes the pending element.  The last
\* element of c[i] is the pending element after i inputs.
Coalesce(f, s) ==
    LET c[i \in 0..Len(s)] ==
            IF i = 0 THEN <<>>
            ELSE IF i = 1 THEN <<s[1]>>
            ELSE LET prev == c[i - 1]
                     last == prev[Len(prev)]
                     r == Closure(f, last, s[i])
                 IN  IF r # <<>>
                     THEN [prev EXCEPT ![Len(prev)] = r[1]]
                     ELSE Append(prev, s[i])
    IN  c[Len(s)]

RECURSIVE combine_increments(_)
combine_increments(s) ==
    LET flat == SelectSeq(Coalesce("combine_increments", s), CombineIncrementsKeep)
        \* Combine increments in nested loops too.
        m[i \in 0..Len(flat)] ==
            IF i = 0 THEN <<>>
            ELSE Append(m[i - 1], IF IsLoop(flat[i])
                                  THEN Loop(combine_increments(flat[i].body))
                                  ELSE flat[i])
    IN  m[Len(flat)]

RECURSIVE combine_ptr_increments(_)
combine_ptr_increments(s) ==
    LET flat == SelectSeq(Coalesce("combine_ptr_increments", s),
                          CombinePtrIncrementsKeep)
        m[i \in 0..Len(flat)] ==
            IF i = 0 THEN <<>>
            ELSE Append(m[i - 1], IF IsLoop(flat[i])
                                  THEN Loop(combine_ptr_increments(flat[i].body))
                                  ELSE flat[i])
    IN  m[Len(flat)]

RECURSIVE simplify_loops(_)
simplify_loops(s) ==
    LET \* Simplify zeroing loops nested in other loops.
        m[i \in 0..Len(s)] ==
            IF i = 0 THEN <<>>
            ELSE LET instr == SimplifyLoop(s[i])
                 IN  Append(m[i - 1], IF IsLoop(instr)
                                      THEN Loop(simplify_loops(instr.body))
                                      ELSE instr)
    IN  m[Len(s)]

RECURSIVE remove_dead_loops(_)
remove_dead_loops(s) ==
    LET flat == Coalesce("remove_dead_loops", s)
        m[i \in 0..Len(flat)] ==
            IF i = 0 THEN <<>>
            ELSE Append(m[i - 1], IF IsLoop(flat[i])
                                  THEN Loop(remove_dead_loops(flat[i].body))
                                  ELSE flat[i])
    IN  m[Len(flat)]

RECURSIVE combine_set_and_increments(_)
combine_set_and_increments(s) ==
    LET flat == Coalesce("combine_set_and_increments 3",
                    Coalesce("combine_set_and_increments 2",
                        Coalesce("combine_set_and_increments 1", s)))
        m[i \in 0..Len(flat)] ==
            IF i = 0 THEN <<>>
            ELSE Append(m[i - 1], IF IsLoop(flat[i])
                                  THEN Loop(combine_set_and_increments(flat[i].body))
                                  ELSE flat[i])
    IN  m[Len(flat)]

RECURSIVE remove_redundant_sets(_)
remove_redundant_sets(s) ==
    LET flat == Coalesce("remove_redundant_sets", s)
        m[i \in 0..Len(flat)] ==
            IF i = 0 THEN <<>>
            ELSE Append(m[i - 1], IF IsLoop(flat[i])
                                  THEN Loop(remove_redundant_sets(flat[i].body))
                                  ELSE flat[i])
    IN  m[Len(flat)]

\* optimize: the passes in the order the function composes them.
optimize(s) ==
    LET combined == combine_ptr_increments(combine_increments(s))
        simplified == remove_dead_loops(
                          combine_set_and_increments(simplify_loops(combined)))
    IN  remove_redundant_sets(simplified)

\* The pass that optimize applies as its k-th.
ApplyPass(k, s) ==
    CASE k = 1 -> combine_increments(s)
      [] k = 2 -> combine_ptr_increments(s)
      [] k = 3 -> simplify_loops(s)
      [] k = 4 -> combine_set_and_increments(s)
      [] k = 5 -> remove_dead_loops(s)
      [] k = 6 -> remove_redundant_sets(s)

-----------------------------------------------------------------------------
(* The programs the model hands to optimize.  A program is drawn through  *)
(* its spelling: a string of at most MaxSize symbols, one symbol for each  *)
(* instruction that is not a loop and a bracket pair around each loop      *)
(* body.  Set is among the instructions: optimize accepts its own output.  *)

Spelling ==
    [ inc |-> Increment(1, 0),     dec |-> Increment(-1, 0),
      right |-> PointerIncrement(1), left |-> PointerIncrement(-1),
      read |-> Read,               write |-> Write,
      zero |-> Set(0, 0),          one |-> Set(1, 0),
      max |-> Increment(127, 0) ]

Symbols == DOMAIN Spelling \cup {"open", "close"}

Spellings(n) == UNION { [1..k -> Symbols] : k \in 0..n }

\* The block a spelling denotes, read with a stack of open loops; ok is
\* FALSE once a "close" has met no open loop.
Spell(t) ==
    LET st[i \in 0..Len(t)] ==
            IF i = 0 THEN [cur |-> <<>>, open |-> <<>>, ok |-> TRUE]
            ELSE LET p == st[i - 1]
                     n == Len(p.open)
                 IN  IF ~p.ok THEN p
                     ELSE IF t[i] = "open"
                     THEN [p EXCEPT !.cur = <<>>, !.open = Append(@, p.cur)]
                     ELSE IF t[i] = "close"
                     THEN IF n = 0 THEN [p EXCEPT !.ok = FALSE]
                          ELSE [p EXCEPT !.cur = Append(p.open[n], Loop(p.cur)),
                                         !.open = SubSeq(@, 1, n - 1)]
                     ELSE [p EXCEPT !.cur = Append(@, Spelling[t[i]])]
    IN  st[Len(t)]

IsProgram(t) == Spell(t).ok /\ Spell(t).open = <<>>

-----------------------------------------------------------------------------
(* The pipeline as a state machine.                                        *)

NumPasses == 6

NoRun ==
    /\ prog = <<>> /\ stdin = <<>> /\ eof = "unchanged" /\ phase = "off"
    /\ frames = <<>> /\ tape = <<>> /\ head = 0 /\ unread = <<>>
    /\ output = <<>> /\ ticks = 0 /\ result1 = <<>>

NoParse ==
    /\ source = <<>> /\ index = 0 /\ instructions = <<>> /\ stack = <<>>
    /\ parsed = <<>>

NoOpt == given = <<>> /\ instrs = <<>> /\ stage = 0 /\ run = 0 /\ first = <<>>

NoEmit ==
    /\ cells = <<>> /\ cell_ptr = 0 /\ static_outputs = <<>> /\ module = <<>>
    /\ bb = 0 /\ pc = "off" /\ runs = <<>> /\ offset = 0 /\ todo = <<>>

Init ==
    /\ \E t \in Spellings(MaxSize) : IsProgram(t) /\ given = Spell(t).cur
    /\ instrs = given
    /\ stage = 0
    /\ run = 1
    /\ first = <<>>
    /\ NoRun
    /\ NoParse
    /\ NoEmit

\* One pass of optimize: the next one in the order of the pipeline.
Pass(k) ==
    /\ stage = k - 1
    /\ instrs' = ApplyPass(k, instrs)
    /\ stage' = k
    /\ first' = IF k = NumPasses /\ run = 1 THEN <<instrs'>> ELSE first
    /\ UNCHANGED <<given, run, runVars, parseVars, emitVars>>

\* The caller hands the result of optimize to optimize again.
Reoptimize ==
    /\ stage = NumPasses
    /\ run = 1
    /\ run' = 2
    /\ stage' = 0
    /\ UNCHANGED <<given, instrs, first, runVars, parseVars, emitVars>>

Next ==
    \/ Pass(1)
    \/ Pass(2)
    \/ Pass(3)
    \/ Pass(4)
    \/ Pass(5)
    \/ Pass(6)
    \/ Reoptimize

Spec == Init /\ [][Next]_vars

-----------------------------------------------------------------------------
(* Properties of optimize(p), stated on the state the pipeline ends in.    *)

\* optimize has returned (optimize(p) in run 1, optimize(optimize(p)) in
\* run 2).
Optimized == stage = NumPasses

\* Some block of s, s itself or the body of a loop at any depth, is Bad.
RECURSIVE SomeBlock(_, _)
SomeBlock(Bad(_), s) ==
    \/ Bad(s)
    \/ \E i \in 1..Len(s) : IsLoop(s[i]) /\ SomeBlock(Bad, s[i].body)

\* Some instruction of block s satisfies P.
HasInstr(P(_), s) == \E i \in 1..Len(s) : P(s[i])

\* Some instruction of block s and its successor satisfy P.
HasPair(P(_, _), s) == \E i \in 1..(Len(s) - 1) : P(s[i], s[i + 1])

AdjacentIncrements(a, b) ==
    IsIncrement(a) /\ IsIncrement(b) /\ a.offset = b.offset
AdjacentPointerIncrements(a, b) ==
    IsPointerIncrement(a) /\ IsPointerIncrement(b)
ZeroIncrement(i) == IsIncrement(i) /\ i.amount = 0
ZeroSet(i) == IsSet(i) /\ i.amount = 0
SetZeroThenLoop(a, b) == a = Set(0, 0) /\ IsLoop(b)
LoopThenSetZero(a, b) == IsLoop(a) /\ b = Set(0, 0)

\* C2: optimize(optimize(p)) = optimize(p): when the second run of the
\* pipeline is over, its result is the result of the first run.
C2_Idempotent ==
    (run = 2 /\ Optimized) => instrs = first[1]

\* C3: no block of optimize(p) holds two adjacent Increments with equal
\* offsets, nor two adjacent PointerIncrements.
C3_NoAdjacentSameKind ==
    Optimized =>
        /\ ~SomeBlock(LAMBDA b : HasPair(AdjacentIncrements, b), instrs)
        /\ ~SomeBlock(LAMBDA b : HasPair(AdjacentPointerIncrements, b), instrs)

\* C4 as claimed: optimize(p) holds, at any depth, no Increment of amount 0
\* and no Set of amount 0.
C4_NoZeroAmount ==
    Optimized =>
        /\ ~SomeBlock(LAMBDA b : HasInstr(ZeroIncrement, b), instrs)
        /\ ~SomeBlock(LAMBDA b : HasInstr(ZeroSet, b), instrs)

\* C4 as amended: optimize(p) holds, at any depth, no Increment of amount 0
\* (a Set of amount 0 may remain).
C4_NoZeroIncrement ==
    Optimized => ~SomeBlock(LAMBDA b : HasInstr(ZeroIncrement, b), instrs)

\* A program whose increments cancel, between two barriers, has been
\* optimised: the run of increments has gone, the barriers stay.
C4_Witness ==
    /\ given = <<Write, Increment(1, 0), Increment(-1, 0), Write>>
    /\ run = 1 /\ Optimized
    /\ instrs = <<Write, Write>>

\* C5: no block of optimize(p), at any depth, holds a Loop right after a
\* Set{0,0}.
C5_NoLoopAfterSetZero ==
    Optimized => ~SomeBlock(LAMBDA b : HasPair(SetZeroThenLoop, b), instrs)

\* A program in which a loop follows a Set{0,0} has been optimised: the
\* dead loop has gone, the Set stays.
C5_Witness ==
    /\ given = <<Set(0, 0), Loop(<<Write>>)>>
    /\ run = 1 /\ Optimized
    /\ instrs = <<Set(0, 0)>>

\* C6: no block of optimize(p), at any depth, holds a Set{0,0} right after
\* a Loop.
C6_NoSetZeroAfterLoop ==
    Optimized => ~SomeBlock(LAMBDA b : HasPair(LoopThenSetZero, b), instrs)

\* A loop followed by two Set{0,0} in a row has been optimised: both have
\* gone.
C6_Witness ==
    /\ given = <<Loop(<<>>), Set(0, 0), Set(0, 0)>>
    /\ run = 1 /\ Optimized
    /\ instrs = <<Loop(<<>>)>>

-----------------------------------------------------------------------------
(* The reference interpreter: the meaning the IR table gives to each       *)
(* instruction, on a tape of TapeLen zeroed cells with the head on cell 0. *)
(* It executes p, keeps the state p ended in, then executes optimize(p)    *)
(* from a fresh tape on the same input.  An access to a cell outside the   *)
(* tape is a fault and ends the execution; so does exceeding MaxTicks      *)
(* steps; neither counts as terminating.                                   *)

EofPolicies == {"unchanged", "zero", "minus_one"}

HasRead(s) == SomeBlock(LAMBDA b : HasInstr(LAMBDA i : i.op = "Read", b), s)

FreshTape == [c \in 0..(TapeLen - 1) |-> 0]

Running == phase \in {"orig", "opt"}
Top == frames[Len(frames)]
AtEnd == Top.pc > Len(Top.block)
Cur == Top.block[Top.pc]
InTape(c) == c \in 0..(TapeLen - 1)

\* The current instruction is an `op` and a step may be taken.
At(op) == Running /\ ticks < MaxTicks /\ ~AtEnd /\ Cur.op = op

\* The cell the current instruction reads or writes.
Target ==
    IF Cur.op \in {"Increment", "Set"} THEN head + Cur.offset ELSE head

Advance == frames' = [frames EXCEPT ![Len(frames)].pc = @ + 1]

Tick == ticks' = ticks + 1

InitRun ==
    /\ \E t \in Spellings(MaxRunSize) : IsProgram(t) /\ prog = Spell(t).cur
    /\ IF HasRead(prog)
       THEN stdin \in {<<>>, <<5>>} /\ eof \in EofPolicies
       ELSE stdin = <<>> /\ eof = "unchanged"
    /\ phase = "orig"
    /\ frames = <<[block |-> prog, pc |-> 1]>>
    /\ tape = FreshTape
    /\ head = 0
    /\ unread = stdin
    /\ output = <<>>
    /\ ticks = 0
    /\ result1 = <<>>
    /\ NoOpt
    /\ NoParse
    /\ NoEmit

\* Increment: add amount (wrapping) to the cell at head+offset.
ExecIncrement ==
    /\ At("Increment") /\ InTape(Target)
    /\ tape' = [tape EXCEPT ![Target] = Wrap(@ + Cur.amount)]
    /\ Advance /\ Tick
    /\ UNCHANGED <<prog, stdin, eof, phase, head, unread, output, result1,
                   optVars, parseVars, emitVars>>

\* Set: assign amount to the cell at head+offset.
ExecSet ==
    /\ At("Set") /\ InTape(Target)
    /\ tape' = [tape EXCEPT ![Target] = Cur.amount]
    /\ Advance /\ Tick
    /\ UNCHANGED <<prog, stdin, eof, phase, head, unread, output, result1,
                   optVars, parseVars, emitVars>>

\* PointerIncrement: move the head by amount.
ExecPointerIncrement ==
    /\ At("PointerIncrement")
    /\ head' = head + Cur.amount
    /\ Advance /\ Tick
    /\ UNCHANGED <<prog, stdin, eof, phase, tape, unread, output, result1,
                   optVars, parseVars, emitVars>>

\* Read: one byte of input into the current cell; at end of input, what
\* the policy says.
ExecRead ==
    /\ At("Read") /\ InTape(Target)
    /\ IF unread # <<>>
       THEN tape' = [tape EXCEPT ![head] = Head(unread)] /\ unread' = Tail(unread)
       ELSE /\ unread' = unread
            /\ tape' = CASE eof = "unchanged" -> tape
                         [] eof = "zero" -> [tape EXCEPT ![head] = 0]
                         [] eof = "minus_one" -> [tape EXCEPT ![head] = -1]
    /\ Advance /\ Tick
    /\ UNCHANGED <<prog, stdin, eof, phase, head, output, result1,
                   optVars, parseVars, emitVars>>

\* Write: emit the current cell's byte.
ExecWrite ==
    /\ At("Write") /\ InTape(Target)
    /\ output' = Append(output, tape[head])
    /\ Advance /\ Tick
    /\ UNCHANGED <<prog, stdin, eof, phase, tape, head, unread, result1,
                   optVars, parseVars, emitVars>>

\* Loop: while the current cell is nonzero, execute the body.
ExecLoop ==
    /\ At("Loop") /\ InTape(Target)
    /\ IF tape[head] # 0
       THEN frames' = Append(frames, [block |-> Cur.body, pc |-> 1])
       ELSE Advance
    /\ Tick
    /\ UNCHANGED <<prog, stdin, eof, phase, tape, head, unread, output, result1,
                   optVars, parseVars, emitVars>>

\* The end of a loop body: back to the test of its Loop.
EndLoopBody ==
    /\ Running /\ ticks < MaxTicks /\ AtEnd /\ Len(frames) > 1
    /\ frames' = SubSeq(frames, 1, Len(frames) - 1)
    /\ Tick
    /\ UNCHANGED <<prog, stdin, eof, phase, tape, head, unread, output, result1,
                   optVars, parseVars, emitVars>>

\* The current instruction touches a cell that is not on the tape.
Fault ==
    /\ Running /\ ticks < MaxTicks /\ ~AtEnd
    /\ Cur.op # "PointerIncrement" /\ ~InTape(Target)
    /\ phase' = IF phase = "orig" THEN "orig_fault" ELSE "opt_fault"
    /\ UNCHANGED <<prog, stdin, eof, frames, tape, head, unread, output, ticks,
                   result1, optVars, parseVars, emitVars>>

\* The execution has taken MaxTicks steps and is not over.
GiveUp ==
    /\ Running /\ ticks >= MaxTicks /\ ~(AtEnd /\ Len(frames) = 1)
    /\ phase' = IF phase = "orig" THEN "orig_timeout" ELSE "opt_timeout"
    /\ UNCHANGED <<prog, stdin, eof, frames, tape, head, unread, output, ticks,
                   result1, optVars, parseVars, emitVars>>

\* p has terminated: keep its final state and start optimize(p) afresh on
\* the same input.
FinishOriginal ==
    /\ phase = "orig" /\ AtEnd /\ Len(frames) = 1
    /\ result1' = <<[tape |-> tape, head |-> head, output |-> output]>>
    /\ phase' = "opt"
    /\ frames' = <<[block |-> optimize(prog), pc |-> 1]>>
    /\ tape' = FreshTape
    /\ head' = 0
    /\ unread' = stdin
    /\ output' = <<>>
    /\ ticks' = 0
    /\ UNCHANGED <<prog, stdin, eof, optVars, parseVars, emitVars>>

\* optimize(p) has terminated.
FinishOptimized ==
    /\ phase = "opt" /\ AtEnd /\ Len(frames) = 1
    /\ phase' = "done"
    /\ UNCHANGED <<prog, stdin, eof, frames, tape, head, unread, output, ticks,
                   result1, optVars, parseVars, emitVars>>

NextRun ==
    \/ ExecIncrement
    \/ ExecSet
    \/ ExecPointerIncrement
    \/ ExecRead
    \/ ExecWrite
    \/ ExecLoop
    \/ EndLoopBody
    \/ Fault
    \/ GiveUp
    \/ FinishOriginal
    \/ FinishOptimized

SpecRun == InitRun /\ [][NextRun]_vars

\* C1: when p has terminated (no fault, within MaxTicks steps), optimize(p)
\* on a fresh tape and the same input terminates too, with the same output
\* and the same final tape (cells and head).
C1_SemanticPreservation ==
    /\ phase \notin {"opt_fault", "opt_timeout"}
    /\ phase = "done" =>
           /\ output = result1[1].output
           /\ tape = result1[1].tape
           /\ head = result1[1].head

\* Both executions of a program that optimize changes are over; the
\* program wrote something and left a wrapped value on the tape.
C1_Witness ==
    /\ phase = "done"
    /\ optimize(prog) # prog
    /\ prog = <<Increment(127, 0), Increment(127, 0), Write>>
    /\ output = <<-2>>

-----------------------------------------------------------------------------
(* bfir.rs, parse.  The source is a sequence of characters, as             *)
(* source.chars() yields them; index counts characters.  The file name is  *)
(* only copied into the diagnostic.                                        *)

FileName == "prog.bf"

\* The eight tokens, an ASCII comment character and a non-ASCII one.
Chars == {"+", "-", ">", "<", ",", ".", "[", "]", "c", "U+00E9"}

Sources(n) == UNION { [1..k -> Chars] : k \in 0..n }

UnmatchedClose == "This ] has no matching ["
UnmatchedOpen == "This [ has no matching ]"

\* Ok(instructions)
Ok(v) ==
    [ok |-> TRUE, value |-> v, level |-> "", filename |-> "", message |-> "",
     position |-> <<>>, source |-> <<>>]

\* Err(Info { level: Level::Error, filename, message, position: Some(pos..pos),
\*            source: Some(source) })
Err(msg, pos) ==
    [ok |-> FALSE, value |-> <<>>, level |-> "Error", filename |-> FileName,
     message |-> msg, position |-> <<[start |-> pos, end |-> pos]>>,
     source |-> <<source>>]

\* The arms of the match that push one instruction.
\* (faulty variant, for comparison: the arm of '-' pushes what the arm of '+' pushes)
TokenInstructionMinusAsPlus(c) ==
    CASE c = "+" -> Increment(1, 0)
      [] c = "-" -> Increment(1, 0)
      [] c = ">" -> PointerIncrement(1)
      [] c = "<" -> PointerIncrement(-1)
      [] c = "," -> Read
      [] c = "." -> Write
TokenInstruction(c) ==
    CASE c = "+" -> Increment(1, 0)
      [] c = "-" -> Increment(-1, 0)
      [] c = ">" -> PointerIncrement(1)
      [] c = "<" -> PointerIncrement(-1)
      [] c = "," -> Read
      [] c = "." -> Write

Scanning == parsed = <<>> /\ index < Len(source)
\* The character the for loop is at; index is its position, from 0.
Char == source[index + 1]

\* if !stack.is_empty()
\* (faulty variant, for comparison: the check after the scan is left out)
UnclosedNever == FALSE
Unclosed == stack # <<>>

\* stack.last().unwrap().1
\* (faulty variant, for comparison: the first frame of the stack instead of the last)
UnclosedPosFirst == stack[1].index
UnclosedPos == stack[Len(stack)].index

InitParse ==
    /\ source \in Sources(MaxSrcLen)
    /\ index = 0
    /\ instructions = <<>>
    /\ stack = <<>>
    /\ parsed = <<>>
    /\ NoOpt
    /\ NoRun
    /\ NoEmit

\* '+' | '-' | '>' | '<' | ',' | '.'
ScanToken ==
    /\ Scanning /\ Char \in {"+", "-", ">", "<", ",", "."}
    /\ instructions' = Append(instructions, TokenInstruction(Char))
    /\ index' = index + 1
    /\ UNCHANGED <<source, stack, parsed, optVars, runVars, emitVars>>

\* '['
ScanOpen ==
    /\ Scanning /\ Char = "["
    /\ stack' = Append(stack, [instrs |-> instructions, index |-> index])
    /\ instructions' = <<>>
    /\ index' = index + 1
    /\ UNCHANGED <<source, parsed, optVars, runVars, emitVars>>

\* ']' with an open loop: if let Some((parent_instr, _)) = stack.pop()
ScanClose ==
    /\ Scanning /\ Char = "]" /\ stack # <<>>
    /\ instructions' = Append(stack[Len(stack)].instrs, Loop(instructions))
    /\ stack' = SubSeq(stack, 1, Len(stack) - 1)
    /\ index' = index + 1
    /\ UNCHANGED <<source, parsed, optVars, runVars, emitVars>>

\* ']' with no open loop: return Err
\* (faulty variant, for comparison: the character is skipped like a comment)
ScanUnmatchedCloseSkipped ==
    /\ Scanning /\ Char = "]" /\ stack = <<>>
    /\ index' = index + 1
    /\ UNCHANGED <<source, instructions, stack, parsed, optVars, runVars, emitVars>>
ScanUnmatchedClose ==
    /\ Scanning /\ Char = "]" /\ stack = <<>>
    /\ parsed' = <<Err(UnmatchedClose, index)>>
    /\ UNCHANGED <<source, index, instructions, stack, optVars, runVars, emitVars>>

\* _ => ()
ScanComment ==
    /\ Scanning /\ Char \notin {"+", "-", ">", "<", ",", ".", "[", "]"}
    /\ index' = index + 1
    /\ UNCHANGED <<source, instructions, stack, parsed, optVars, runVars, emitVars>>

\* After the scan, with a loop still open: return Err
ReturnUnclosed ==
    /\ parsed = <<>> /\ index = Len(source) /\ Unclosed
    /\ parsed' = <<Err(UnmatchedOpen, UnclosedPos)>>
    /\ UNCHANGED <<source, index, instructions, stack, optVars, runVars, emitVars>>

\* Ok(instructions)
ReturnOk ==
    /\ parsed = <<>> /\ index = Len(source) /\ ~Unclosed
    /\ parsed' = <<Ok(instructions)>>
    /\ UNCHANGED <<source, index, instructions, stack, optVars, runVars, emitVars>>

NextParse ==
    \/ ScanToken
    \/ ScanOpen
    \/ ScanClose
    \/ ScanUnmatchedClose
    \/ ScanComment
    \/ ReturnUnclosed
    \/ ReturnOk

SpecParse == InitParse /\ [][NextParse]_vars

-----------------------------------------------------------------------------
(* Properties of parse, stated on the source text alone and compared with  *)
(* what the scan returned.                                                 *)

Returned == parsed # <<>>
Result == parsed[1]

IsToken(c) == c \in {"+", "-", ">", "<", ",", ".", "[", "]"}

\* The number of '[' less the number of ']' among the first k characters.
Depth(k) ==
    Cardinality({i \in 1..k : source[i] = "["})
        - Cardinality({i \in 1..k : source[i] = "]"})

\* Every prefix has at least as many '[' as ']', and the totals are equal.
Balanced ==
    /\ \A k \in 0..Len(source) : Depth(k) >= 0
    /\ Depth(Len(source)) = 0

\* The positions (from 1) of the ']' met while no loop is open, up to the
\* first of them.
StrayCloses == {k \in 1..Len(source) : Depth(k) < 0}
FirstStrayClose == CHOOSE k \in StrayCloses : \A j \in StrayCloses : k <= j

\* The positions (from 1) of the '[' that no later ']' closes.
UnmatchedOpens ==
    {i \in 1..Len(source) :
        /\ source[i] = "["
        /\ \A k \in i..Len(source) : Depth(k) >= Depth(i)}
OutermostUnmatchedOpen == CHOOSE i \in UnmatchedOpens : \A j \in UnmatchedOpens : i <= j
InnermostUnmatchedOpen == CHOOSE i \in UnmatchedOpens : \A j \in UnmatchedOpens : i >= j

\* The text of a block: one character for each instruction that a token
\* stands for, brackets around a loop body, and "?" for any instruction
\* that no token stands for (a Set, another amount, an offset).
RECURSIVE Unparse(_)
Unparse(s) ==
    IF s = <<>> THEN <<>>
    ELSE LET i == Head(s)
             text == IF i = Increment(1, 0) THEN <<"+">>
                     ELSE IF i = Increment(-1, 0) THEN <<"-">>
                     ELSE IF i = PointerIncrement(1) THEN <<">">>
                     ELSE IF i = PointerIncrement(-1) THEN <<"<">>
                     ELSE IF i = Read THEN <<",">>
                     ELSE IF i = Write THEN <<".">>
                     ELSE IF i = Loop(i.body) THEN <<"[">> \o Unparse(i.body) \o <<"]">>
                     ELSE <<"?">>
         IN  text \o Unparse(Tail(s))

\* C7: parse returns Ok exactly when the brackets of the source are
\* balanced; otherwise it returns an Error-level diagnostic of one of the
\* two kinds, unmatched '[' or unmatched ']'.
C7_OkIffBalanced ==
    Returned =>
        /\ Result.ok <=> Balanced
        /\ ~Result.ok =>
               /\ Result.level = "Error"
               /\ Result.message \in {UnmatchedOpen, UnmatchedClose}

\* parse has returned a diagnostic for a source whose brackets are equal in
\* number but not balanced.
C7_Witness ==
    /\ Returned /\ ~Result.ok
    /\ source = <<"]", "c", "[">>

\* C8: for a balanced source the instructions returned spell exactly the
\* token characters of the source, in order: one instruction per token
\* other than a bracket, one Loop per bracket pair around the parse of the
\* enclosed text, amounts +1 or -1, offsets 0, no Set.
C8_ImageOfTokens ==
    (Returned /\ Result.ok) => Unparse(Result.value) = SelectSeq(source, IsToken)

\* parse has returned the loop of a source with comments around and inside
\* the brackets.
C8_Witness ==
    /\ Returned /\ Result.ok
    /\ source = <<"[", "U+00E9", "-", "]">>
    /\ Result.value = <<Loop(<<Increment(-1, 0)>>)>>

\* C9 as claimed: the unmatched-'[' diagnostic points at the outermost
\* unmatched opener.
C9_OutermostOpen ==
    (Returned /\ ~Result.ok /\ Result.message = UnmatchedOpen) =>
        Result.position = <<[start |-> OutermostUnmatchedOpen - 1,
                             end |-> OutermostUnmatchedOpen - 1]>>

\* C9 as amended: the unmatched-'[' diagnostic points at the innermost
\* unmatched opener, the one opened last (position counted in characters).
C9_InnermostOpen ==
    (Returned /\ ~Result.ok /\ Result.message = UnmatchedOpen) =>
        Result.position = <<[start |-> InnermostUnmatchedOpen - 1,
                             end |-> InnermostUnmatchedOpen - 1]>>

\* parse has returned the diagnostic for two nested openers left open.
C9_Witness ==
    /\ Returned /\ ~Result.ok /\ Result.message = UnmatchedOpen
    /\ source = <<"+", "[", "[", "-">>
    /\ Result.position = <<[start |-> 2, end |-> 2]>>

\* C10: if a ']' occurs while no loop is open, parse stops there and
\* returns the unmatched-']' diagnostic at the first such ']' (position
\* counted in characters), whatever follows; the unmatched-'[' diagnostic
\* is returned only when there is no such ']'.
C10_FirstErrorWins ==
    Returned =>
        IF StrayCloses # {}
        THEN /\ ~Result.ok
             /\ Result.message = UnmatchedClose
             /\ Result.position = <<[start |-> FirstStrayClose - 1,
                                     end |-> FirstStrayClose - 1]>>
             /\ index = FirstStrayClose - 1
        ELSE Result.ok \/ Result.message = UnmatchedOpen

\* parse has returned for "][": unmatched ']' at index 0, the later '['
\* never scanned.
C10_Witness ==
    /\ Returned
    /\ source = <<"]", "[">>
    /\ Result.message = UnmatchedClose
    /\ Result.position = <<[start |-> 0, end |-> 0]>>
    /\ index = 0

-----------------------------------------------------------------------------
(* Byte offsets.  A Rust string is UTF-8: an ASCII character is one byte,  *)
(* U+00E9 is two.                                                          *)

Utf8Len(c) == IF c = "U+00E9" THEN 2 ELSE 1

\* The zero-based byte offset of the character at position k (from 1) of
\* the source: the bytes of the characters before it.
ByteOffset(k) ==
    LET b[i \in 0..Len(source)] ==
            IF i = 0 THEN 0 ELSE b[i - 1] + Utf8Len(source[i])
    IN  b[k - 1]

\* The positions (from 1) of the brackets a diagnostic may be about: the
\* first stray ']' for the unmatched-']' diagnostic, an unmatched '[' for the
\* other one.
OffendingBrackets ==
    IF Result.message = UnmatchedClose THEN {FirstStrayClose} ELSE UnmatchedOpens

\* C11: the position of every diagnostic parse returns is the zero-based
\* byte offset of the offending bracket, as the range [i, i], also when
\* characters of more than one byte come before the bracket.
C11_ByteOffset ==
    (Returned /\ ~Result.ok) =>
        \E k \in OffendingBrackets :
            Result.position = <<[start |-> ByteOffset(k), end |-> ByteOffset(k)]>>

-----------------------------------------------------------------------------
(* llvm.rs, compile_to_ir.  The module under construction is the list of   *)
(* the basic blocks of main in creation order, each with the instructions  *)
(* built into it so far.  Every builder is positioned at the end of a      *)
(* block, so each LLVMBuild* call appends to that block.                   *)

MaxCells == 3
MaxStatic == 2
MaxEmitSize == 3

\* Operands: an integer constant, a named value, a basic block.
Const(n) == [kind |-> "const", n |-> n, name |-> ""]
Value(name) == [kind |-> "value", n |-> 0, name |-> name]
Label(b) == [kind |-> "block", n |-> b, name |-> ""]

\* LLVMBuild<opcode>(builder, args, name)
Build(opcode, args, name) ==
    [opcode |-> opcode, callee |-> "", args |-> args, name |-> name]

\* add_function_call: LLVMBuildCall of the named function
add_function_call(fn_name, args, name) ==
    [opcode |-> "call", callee |-> fn_name, args |-> args, name |-> name]

\* LLVMAppendBasicBlock(main_fn, name)
AppendBasicBlock(m, name) == Append(m, [name |-> name, code |-> <<>>])

\* builder.position_at_end(b), then the calls that build code
\* (faulty variant, for comparison: the builder is positioned at the start of the block)
BuildAtStart(m, b, code) == [m EXCEPT ![b].code = code \o @]
BuildAtEnd(m, b, code) == [m EXCEPT ![b].code = @ \o code]

\* run_length_encode: the closure given to coalesce
RunLengthMerge(prev, cur) == [val |-> cur.val, count |-> prev.count + cur.count]
RunLengthCan(prev, cur) == prev.val = cur.val

\* run_length_encode: map each value to (value, 1), then coalesce
run_length_encode(v) ==
    LET c[i \in 0..Len(v)] ==
            IF i = 0 THEN <<>>
            ELSE LET cur == [val |-> v[i], count |-> 1]
                 IN  IF i = 1 THEN <<cur>>
                     ELSE LET prev == c[i - 1]
                              last == prev[Len(prev)]
                          IN  IF RunLengthCan(last, cur)
                              THEN [prev EXCEPT ![Len(prev)] = RunLengthMerge(last, cur)]
                              ELSE Append(prev, cur)
    IN  c[Len(v)]

\* The code of the instructions that read or write the current cell starts
\* by computing its address.
CurrentCellPtr ==
    <<Build("load", <<Value("cell_index_ptr")>>, "cell_index"),
      Build("getelementptr", <<Value("cells"), Value("cell_index")>>, "current_cell_ptr")>>

compile_increment(amount) ==
    CurrentCellPtr \o
    <<Build("load", <<Value("current_cell_ptr")>>, "cell_value"),
      Build("add", <<Value("cell_value"), Const(amount)>>, "new_cell_value"),
      Build("store", <<Value("new_cell_value"), Value("current_cell_ptr")>>, "")>>

compile_set(amount) ==
    CurrentCellPtr \o
    <<Build("store", <<Const(amount), Value("current_cell_ptr")>>, "")>>

compile_ptr_increment(amount) ==
    <<Build("load", <<Value("cell_index_ptr")>>, "cell_index"),
      Build("add", <<Value("cell_index"), Const(amount)>>, "new_cell_index"),
      Build("store", <<Value("new_cell_index"), Value("cell_index_ptr")>>, "")>>

compile_read ==
    CurrentCellPtr \o
    <<add_function_call("getchar", <<>>, "input_char"),
      Build("trunc", <<Value("input_char")>>, "input_byte"),
      Build("store", <<Value("input_byte"), Value("current_cell_ptr")>>, "")>>

compile_write ==
    CurrentCellPtr \o
    <<Build("load", <<Value("current_cell_ptr")>>, "cell_value"),
      Build("sext", <<Value("cell_value")>>, "cell_val_as_char"),
      add_function_call("putchar", <<Value("cell_val_as_char")>>, "")>>

\* compile_loop: the code of the loop header
LoopHeader(loop_after, loop_body_bb) ==
    CurrentCellPtr \o
    <<Build("load", <<Value("current_cell_ptr")>>, "cell_value"),
      Build("icmp eq", <<Const(0), Value("cell_value")>>, "cell_value_is_zero"),
      Build("br", <<Value("cell_value_is_zero"), Label(loop_after), Label(loop_body_bb)>>, "")>>

\* compile_instr(instr, module, bb, ...): the module with the code of instr
\* added from block b on, and the block that the code after instr goes to.
RECURSIVE compile_instr(_, _, _)
compile_instr(instr, m, b) ==
    CASE IsIncrement(instr) ->
            [module |-> BuildAtEnd(m, b, compile_increment(instr.amount)), bb |-> b]
      [] IsSet(instr) ->
            [module |-> BuildAtEnd(m, b, compile_set(instr.amount)), bb |-> b]
      [] IsPointerIncrement(instr) ->
            [module |-> BuildAtEnd(m, b, compile_ptr_increment(instr.amount)), bb |-> b]
      [] instr = Read ->
            [module |-> BuildAtEnd(m, b, compile_read), bb |-> b]
      [] instr = Write ->
            [module |-> BuildAtEnd(m, b, compile_write), bb |-> b]
      [] IsLoop(instr) ->
            LET loop_header == Len(m) + 1
                loop_body_bb == Len(m) + 2
                loop_after == Len(m) + 3
                m1 == BuildAtEnd(AppendBasicBlock(m, "loop_header"), b,
                                 <<Build("br", <<Label(loop_header)>>, "")>>)
                m2 == AppendBasicBlock(AppendBasicBlock(m1, "loop_body"), "loop_after")
                m3 == BuildAtEnd(m2, loop_header, LoopHeader(loop_after, loop_body_bb))
                body[i \in 0..Len(instr.body)] ==
                    IF i = 0 THEN [module |-> m3, bb |-> loop_body_bb]
                    ELSE compile_instr(instr.body[i], body[i - 1].module, body[i - 1].bb)
                end == body[Len(instr.body)]
            IN  [module |-> BuildAtEnd(end.module, end.bb,
                                       <<Build("br", <<Label(loop_header)>>, "")>>),
                 bb |-> loop_after]

\* The inputs of compile_to_ir.
CellValues == {0, 1}
CellVectors == UNION { [1..k -> CellValues] : k \in 0..MaxCells }
\* The static outputs tried are the beginnings of one text of different bytes.
StaticText == <<72, 105, 33, 10>>
StaticVectors == { SubSeq(StaticText, 1, k) : k \in 0..MaxStatic }
EmitSymbols == {"inc", "right", "read", "write", "zero", "open", "close"}
EmitPrograms ==
    { Spell(t).cur : t \in { u \in Spellings(MaxEmitSize) :
                                /\ \A i \in DOMAIN u : u[i] \in EmitSymbols
                                /\ IsProgram(u) } }

InitEmit ==
    /\ cells \in CellVectors
    /\ cell_ptr = 0
    /\ static_outputs \in StaticVectors
    /\ instrs \in EmitPrograms
    /\ given = <<>> /\ stage = 0 /\ run = 0 /\ first = <<>>
    /\ module = <<>>
    /\ bb = 0
    /\ pc = "add_main_init"
    /\ runs = <<>>
    /\ offset = 0
    /\ todo = <<>>
    /\ NoRun
    /\ NoParse

\* add_cells_init: offset += cell_count
\* (faulty variant, for comparison: the offset moves on by one cell per run)
NextOffsetByOne(cell_count) == offset + 1
NextOffset(cell_count) == offset + cell_count

\* add_main_init up to the for loop of add_cells_init: the entry block,
\* malloc(cells.len()).
AddMainInit ==
    /\ pc = "add_main_init"
    /\ module' = BuildAtEnd(AppendBasicBlock(module, "entry"), 1,
                            <<add_function_call("malloc", <<Const(Len(cells))>>, "cells")>>)
    /\ bb' = 1
    /\ runs' = run_length_encode(cells)
    /\ offset' = 0
    /\ pc' = "add_cells_init"
    /\ UNCHANGED <<cells, cell_ptr, static_outputs, todo, optVars, runVars, parseVars>>

\* add_cells_init: one iteration of the for loop over the runs.
AddCellsInitRun ==
    /\ pc = "add_cells_init" /\ runs # <<>>
    /\ LET cell_val == Head(runs).val
           cell_count == Head(runs).count
       IN  /\ module' = BuildAtEnd(module, bb,
                  <<Build("getelementptr", <<Value("cells"), Const(offset)>>,
                          "offset_cell_ptr"),
                    add_function_call("llvm.memset.p0i8.i32",
                        <<Value("offset_cell_ptr"), Const(cell_val), Const(cell_count),
                          Const(1), Const(1)>>, "")>>)
           /\ offset' = NextOffset(cell_count)
    /\ runs' = Tail(runs)
    /\ UNCHANGED <<cells, cell_ptr, static_outputs, bb, pc, todo,
                   optVars, runVars, parseVars>>

\* add_main_init after add_cells_init has returned: int cell_index = cell_ptr.
AddMainInitReturn ==
    /\ pc = "add_cells_init" /\ runs = <<>>
    /\ module' = BuildAtEnd(module, bb,
           <<Build("alloca", <<>>, "cell_index_ptr"),
             Build("store", <<Const(cell_ptr), Value("cell_index_ptr")>>, "")>>)
    /\ pc' = "compile_static_outputs"
    /\ todo' = static_outputs
    /\ UNCHANGED <<cells, cell_ptr, static_outputs, bb, runs, offset,
                   optVars, runVars, parseVars>>

\* compile_static_outputs: one iteration of the for loop.
CompileStaticOutput ==
    /\ pc = "compile_static_outputs" /\ todo # <<>>
    /\ module' = BuildAtEnd(module, bb,
           <<add_function_call("putchar", <<Const(Head(todo))>>, "")>>)
    /\ todo' = Tail(todo)
    /\ UNCHANGED <<cells, cell_ptr, static_outputs, bb, pc, runs, offset,
                   optVars, runVars, parseVars>>

\* compile_static_outputs returns; compile_to_ir enters its for loop.
CompileStaticOutputsReturn ==
    /\ pc = "compile_static_outputs" /\ todo = <<>>
    /\ pc' = "compile_instr"
    /\ todo' = instrs
    /\ UNCHANGED <<cells, cell_ptr, static_outputs, module, bb, runs, offset,
                   optVars, runVars, parseVars>>

\* compile_to_ir: one iteration of the for loop over instrs.
CompileInstr ==
    /\ pc = "compile_instr" /\ todo # <<>>
    /\ LET r == compile_instr(Head(todo), module, bb)
       IN  module' = r.module /\ bb' = r.bb
    /\ todo' = Tail(todo)
    /\ UNCHANGED <<cells, cell_ptr, static_outputs, pc, runs, offset,
                   optVars, runVars, parseVars>>

\* add_main_cleanup(&mut module, &mut *bb, cells)
CleanupBlock == bb

\* add_main_cleanup: free(cells); return 0.
AddMainCleanup ==
    /\ pc = "compile_instr" /\ todo = <<>>
    /\ module' = BuildAtEnd(module, CleanupBlock,
           <<add_function_call("free", <<Value("cells")>>, ""),
             Build("ret", <<Const(0)>>, "")>>)
    /\ pc' = "done"
    /\ UNCHANGED <<cells, cell_ptr, static_outputs, bb, runs, offset, todo,
                   optVars, runVars, parseVars>>

NextEmit ==
    \/ AddMainInit
    \/ AddCellsInitRun
    \/ AddMainInitReturn
    \/ CompileStaticOutput
    \/ CompileStaticOutputsReturn
    \/ CompileInstr
    \/ AddMainCleanup

SpecEmit == InitEmit /\ [][NextEmit]_vars

-----------------------------------------------------------------------------
(* The emitted program read back in execution order.                       *)

\* Something the emitted program does that is not an IR instruction.
Event(op, n) == [op |-> op, amount |-> n, offset |-> 0, body |-> <<>>]

\* What one LLVM instruction stands for: <<an IR instruction>> when it is
\* the instruction that only the code of that IR instruction has, <<an
\* event>> for a call or store of initialisation, static output or cleanup,
\* <<>> for an instruction that only computes an operand.
Decode(i) ==
    CASE i.opcode = "call" /\ i.callee = "malloc" -> <<Event("malloc", i.args[1].n)>>
      [] i.opcode = "call" /\ i.callee = "llvm.memset.p0i8.i32" ->
            <<Event("memset", i.args[3].n)>>
      [] i.opcode = "store" /\ i.args[2] = Value("cell_index_ptr")
                            /\ i.args[1].kind = "const" ->
            <<Event("cell_index", i.args[1].n)>>
      [] i.opcode = "call" /\ i.callee = "putchar" /\ i.args[1].kind = "const" ->
            <<Event("putchar", i.args[1].n)>>
      [] i.opcode = "call" /\ i.callee = "free" -> <<Event("free", 0)>>
      [] i.opcode = "ret" -> <<Event("ret", i.args[1].n)>>
      [] i.opcode = "add" /\ i.name = "new_cell_value" -> <<Increment(i.args[2].n, 0)>>
      [] i.opcode = "add" /\ i.name = "new_cell_index" -> <<PointerIncrement(i.args[2].n)>>
      [] i.opcode = "store" /\ i.args[2] = Value("current_cell_ptr")
                            /\ i.args[1].kind = "const" ->
            <<Set(i.args[1].n, 0)>>
      [] i.opcode = "call" /\ i.callee = "getchar" -> <<Read>>
      [] i.opcode = "call" /\ i.callee = "putchar" /\ i.args[1].kind = "value" -> <<Write>>
      [] OTHER -> <<>>

IsTerminator(i) == i.opcode \in {"br", "ret"}

\* What the program does from the start of block b until control reaches
\* block stop or returns: the straight-line code of b up to its terminator;
\* after a branch to a loop header, the loop (with what its body does until
\* it branches back to the header) and then what follows from the block the
\* header leaves the loop to.
RECURSIVE Trace(_, _)
Trace(b, stop) ==
    LET code == module[b].code
        ends == {i \in 1..Len(code) : IsTerminator(code[i])}
        last == IF ends = {} THEN Len(code) + 1
                ELSE CHOOSE i \in ends : \A j \in ends : i <= j
        straight[i \in 0..Len(code)] ==
            IF i = 0 THEN <<>> ELSE straight[i - 1] \o Decode(code[i])
    IN  IF last > Len(code) THEN straight[Len(code)]
        ELSE IF code[last].opcode = "ret" THEN straight[last]
        ELSE LET header == code[last].args[1].n
                 leave == module[header].code[Len(module[header].code)]
             IN  IF header = stop THEN straight[last - 1]
                 ELSE straight[last - 1]
                      \o <<Loop(Trace(leave.args[3].n, header))>>
                      \o Trace(leave.args[2].n, stop)

IsInitEvent(e) == e.op \in {"malloc", "memset", "cell_index"}

StaticOutputEvents == [k \in 1..Len(static_outputs) |-> Event("putchar", static_outputs[k])]

\* C12: the emitted program, in execution order, first initialises the
\* tape (malloc, the memsets) and the head (the store to cell_index_ptr),
\* then writes the bytes of the static output in their order, then does
\* what the IR instructions do in the order of their sequence, and only
\* then frees the tape and returns.
C12_EmissionOrder ==
    pc = "done" =>
        LET trace == Trace(1, 0)
        IN  \E n \in 2..Len(trace) :
                /\ \A k \in 1..n : IsInitEvent(trace[k])
                /\ trace[1].op = "malloc"
                /\ trace[n] = Event("cell_index", cell_ptr)
                /\ SubSeq(trace, n + 1, Len(trace))
                       = StaticOutputEvents \o instrs
                         \o <<Event("free", 0), Event("ret", 0)>>

\* compile_to_ir has finished for a static output of two different bytes
\* and a program that writes after a loop, so that the cleanup is in the
\* block after the loop.
C12_Witness ==
    /\ pc = "done"
    /\ static_outputs = <<72, 105>>
    /\ Len(instrs) = 2 /\ IsLoop(instrs[1]) /\ instrs[2] = Write
    /\ cells = <<1, 1, 0>>
    /\ bb = 4
    /\ module[4].code[Len(module[4].code)].opcode = "ret"

-----------------------------------------------------------------------------
(* One pass on its own: any program is handed to exactly one of the six    *)
(* passes.  run = 0 marks these behaviours; stage is the pass applied.     *)

\* Besides the programs of at most MaxSize symbols, longer ones of few
\* kinds of instruction, for loops in loops.
MaxDeepSize == 6
DeepSymbols == {"inc", "dec", "zero", "open", "close"}
DeepSpellings == UNION { [1..k -> DeepSymbols] : k \in 0..MaxDeepSize }

InitPass ==
    /\ \E t \in Spellings(MaxSize) \cup DeepSpellings :
           IsProgram(t) /\ given = Spell(t).cur
    /\ instrs = given
    /\ stage = 0
    /\ run = 0
    /\ first = <<>>
    /\ NoRun
    /\ NoParse
    /\ NoEmit

\* The call pass_k(given), for the k-th pass of the pipeline.
Only(k) ==
    /\ run = 0
    /\ stage = 0
    /\ instrs' = ApplyPass(k, given)
    /\ stage' = k
    /\ UNCHANGED <<given, run, first, runVars, parseVars, emitVars>>

NextPass == Only(1) \/ Only(2) \/ Only(3) \/ Only(4) \/ Only(5) \/ Only(6)

SpecPass == InitPass /\ [][NextPass]_vars

\* The pass named has been applied to given, and instrs is what it returned.
Applied(k) == run = 0 /\ stage = k

\* The number of Increments a block starts with.
LeadingIncrements(s) ==
    LET n[i \in 0..Len(s)] ==
            IF i = 0 THEN 0
            ELSE IF n[i - 1] = i - 1 /\ IsIncrement(s[i]) THEN i ELSE n[i - 1]
    IN  n[Len(s)]

\* The sum, as an unbounded integer, of the amounts of the first n
\* instructions of a block.
SumAmounts(s, n) ==
    LET sum[i \in 0..n] == IF i = 0 THEN 0 ELSE sum[i - 1] + s[i].amount
    IN  sum[n]

\* A block with every maximal run of adjacent Increments replaced by one
\* Increment of the run's sum reduced modulo 256 to a cell value, or by
\* nothing when that is 0; the other instructions stay where they are, a
\* Loop with its body treated the same way.
RECURSIVE SumRuns(_)
SumRuns(s) ==
    IF s = <<>> THEN <<>>
    ELSE LET n == LeadingIncrements(s)
         IN  IF n = 0
             THEN <<IF IsLoop(s[1]) THEN Loop(SumRuns(s[1].body)) ELSE s[1]>>
                  \o SumRuns(Tail(s))
             ELSE LET total == Wrap(SumAmounts(s, n))
                  IN  (IF total = 0 THEN <<>> ELSE <<Increment(total, 0)>>)
                      \o SumRuns(SubSeq(s, n + 1, Len(s)))

ZeroingLoop(i) == i = Loop(<<Increment(-1, 0)>>)

\* Block out is block in with each zeroing loop, at any depth, replaced by
\* Set{0,0} and nothing else changed.
RECURSIVE OnlyZeroingLoopsRewritten(_, _)
OnlyZeroingLoopsRewritten(in, out) ==
    /\ Len(out) = Len(in)
    /\ \A i \in 1..Len(in) :
           IF ZeroingLoop(in[i]) THEN out[i] = Set(0, 0)
           ELSE IF IsLoop(in[i])
                THEN /\ IsLoop(out[i])
                     /\ OnlyZeroingLoopsRewritten(in[i].body, out[i].body)
                ELSE out[i] = in[i]

\* C14: simplify_loops rewrites a Loop to Set{0,0} exactly when its body
\* is the single instruction Increment{-1,0}, at every depth, and changes
\* nothing else, so that what it returns holds no such loop.
C14_ZeroingLoops ==
    Applied(3) =>
        /\ OnlyZeroingLoopsRewritten(given, instrs)
        /\ ~SomeBlock(LAMBDA b : HasInstr(ZeroingLoop, b), instrs)

\* simplify_loops has rewritten a zeroing loop inside another loop and
\* kept the loop around it.
C14_Witness ==
    /\ Applied(3)
    /\ given = <<Loop(<<Loop(<<Increment(-1, 0)>>)>>)>>
    /\ instrs = <<Loop(<<Set(0, 0)>>)>>

\* Instruction i of block s is a dead loop: a Loop with a Set{0,0} before
\* it in the block and nothing but Loops in between.
DeadLoop(s, i) ==
    /\ IsLoop(s[i])
    /\ \E j \in 1..(i - 1) :
           /\ s[j] = Set(0, 0)
           /\ \A k \in (j + 1)..i : IsLoop(s[k])

\* Block s without its dead loops, the bodies of the loops that stay
\* treated the same way.
RECURSIVE WithoutDeadLoops(_)
WithoutDeadLoops(s) ==
    LET keep[i \in 0..Len(s)] ==
            IF i = 0 THEN <<>>
            ELSE IF DeadLoop(s, i) THEN keep[i - 1]
            ELSE Append(keep[i - 1], IF IsLoop(s[i])
                                     THEN Loop(WithoutDeadLoops(s[i].body))
                                     ELSE s[i])
    IN  keep[Len(s)]

\* C15: remove_dead_loops drops, in every block at every depth, each Loop
\* that directly follows a Set{0,0} and every further Loop of the same
\* uninterrupted run; the Set and all other instructions stay, in order,
\* and the bodies of the loops that stay are treated the same way.
C15_DeadLoopsDropped ==
    Applied(5) => instrs = WithoutDeadLoops(given)

\* remove_dead_loops has dropped a run of two loops after a Set{0,0}.
C15_Witness ==
    /\ Applied(5)
    /\ given = <<Set(0, 0), Loop(<<>>), Loop(<<Increment(1, 0)>>)>>
    /\ instrs = <<Set(0, 0)>>

\* The first instruction of block s is a Loop.
LeadingLoop(s) == s # <<>> /\ IsLoop(s[1])

\* C16 as claimed: remove_dead_loops removes a Loop that is the first
\* instruction of the program, so optimize(p) never begins with a Loop.
C16_NoLeadingLoop ==
    Optimized => ~LeadingLoop(instrs)

\* C16 as amended: the start of the program is no special case: when the
\* program handed to remove_dead_loops begins with a Loop, so does what the
\* pass returns, and so does what remove_redundant_sets after it returns;
\* optimize(p) can begin with a Loop.
C16_LeadingLoopKept ==
    [][(stage >= 4 /\ LeadingLoop(instrs)) => LeadingLoop(instrs')]_vars

\* optimize has returned a program that begins with the loop its argument
\* began with.
C16_Witness ==
    /\ run = 1 /\ Optimized
    /\ given = <<Loop(<<Write>>), Write>>
    /\ instrs = given

\* The pairs that the three rules of combine_set_and_increments rewrite.
SetOrIncrementPair(a, b) ==
    /\ \/ IsSet(a) /\ IsSet(b)
       \/ IsSet(a) /\ IsIncrement(b)
       \/ IsIncrement(a) /\ IsSet(b)
    /\ a.offset = b.offset

\* C17: what combine_set_and_increments returns in the pipeline holds, in
\* no block at any depth, an adjacent pair (Set, Set), (Set, Increment) or
\* (Increment, Set) on the same offset: one run of the pass leaves none of
\* its rules applicable.
C17_NormalForm ==
    (run = 1 /\ stage = 4) =>
        ~SomeBlock(LAMBDA b : HasPair(SetOrIncrementPair, b), instrs)

-----------------------------------------------------------------------------
(* The initialisation of the tape.                                         *)

\* The vector that a sequence of runs stands for.
Expand(rle) ==
    LET e[k \in 0..Len(rle)] ==
            IF k = 0 THEN <<>>
            ELSE e[k - 1] \o [j \in 1..rle[k].count |-> rle[k].val]
    IN  e[Len(rle)]

\* The memset calls of the entry block, in order, each with the constant
\* offset of the getelementptr that computes its pointer.
MemsetStores ==
    LET code == module[1].code
        s[i \in 0..Len(code)] ==
            IF i = 0 THEN <<>>
            ELSE IF code[i].opcode = "call" /\ code[i].callee = "llvm.memset.p0i8.i32"
                 THEN Append(s[i - 1], [offset |-> code[i - 1].args[2].n,
                                        val |-> code[i].args[2].n,
                                        count |-> code[i].args[3].n])
                 ELSE s[i - 1]
    IN  s[Len(code)]

\* The cells 0 .. n-1 after the stores, in order, on a tape of n cells not
\* yet written (-1).
Stored(stores, n) ==
    LET t[k \in 0..Len(stores)] ==
            IF k = 0 THEN [j \in 0..(n - 1) |-> -1]
            ELSE [j \in 0..(n - 1) |->
                    IF /\ stores[k].offset <= j
                       /\ j < stores[k].offset + stores[k].count
                    THEN stores[k].val ELSE t[k - 1][j]]
    IN  t[Len(stores)]

\* C18: run_length_encode(cells) expands back to cells, every run has a
\* count of at least 1 and adjacent runs have different values; the stores
\* that add_cells_init issues are those runs, start at offset 0, each begin
\* where the one before ends, end at cells.len(), and leave cells[i] in
\* cell i.
C18_FaithfulRuns ==
    pc \in {"compile_static_outputs", "compile_instr", "done"} =>
        LET rle == run_length_encode(cells)
            stores == MemsetStores
            n == Len(stores)
        IN  /\ Expand(rle) = cells
            /\ \A k \in 1..Len(rle) : rle[k].count >= 1
            /\ \A k \in 1..(Len(rle) - 1) : rle[k].val # rle[k + 1].val
            /\ n = Len(rle)
            /\ \A k \in 1..n : /\ stores[k].val = rle[k].val
                               /\ stores[k].count = rle[k].count
            /\ n > 0 => stores[1].offset = 0
            /\ \A k \in 1..(n - 1) :
                   stores[k + 1].offset = stores[k].offset + stores[k].count
            /\ n > 0 => stores[n].offset + stores[n].count = Len(cells)
            /\ n = 0 => cells = <<>>
            /\ \A i \in 1..Len(cells) : Stored(stores, Len(cells))[i - 1] = cells[i]

\* add_cells_init has returned for a tape of a run of two cells followed by
\* a cell of another value.
C18_Witness ==
    /\ pc = "compile_static_outputs"
    /\ cells = <<1, 1, 0>>
    /\ MemsetStores = <<[offset |-> 0, val |-> 1, count |-> 2],
                        [offset |-> 2, val |-> 0, count |-> 1]>>

=============================================================================
